---- MODULE Spec2Model ----
(***************************************************************************)
(* Model of Schedule_Checker.py: the time parser (parse_time), the overlap *)
(* test (times_overlap) and the scheduler's two handlers (add_class,       *)
(* select_classes) with the display formatting of update_class_list.       *)
(*                                                                         *)
(* Text is a sequence of Unicode code points.  A Python float is an IEEE   *)
(* binary64 value; the values that occur here are non-negative and below   *)
(* 2^11 (plus the sentinel -1), so a float is kept exactly as a sign, an   *)
(* integer part and the set of positions (1..FracBits) of the ones of its  *)
(* binary fraction, and every arithmetic operation computes the exact      *)
(* result and rounds it to MantBits significant bits, ties to even, as the *)
(* hardware does.                                                          *)
(***************************************************************************)
EXTENDS Integers, Sequences, FiniteSets, TLC

VARIABLES
    classes,        \* self.classes: list of {name, start, end, days}
    class_listbox,  \* lines of the class list widget
    result_text,    \* content of the result text widget
    selected,       \* the list built by the last select_classes call
    msg,            \* the message box shown by the last handler call
    op,             \* the handler that ran last
    name_entry, start_entry, end_entry, day_vars,   \* the input widgets
    tstr, parsed, shown     \* argument and results of a direct parse_time call

vars == <<classes, class_listbox, result_text, selected, msg, op,
          name_entry, start_entry, end_entry, day_vars, tstr, parsed, shown>>

-----------------------------------------------------------------------------
(* Binary64 arithmetic *)

MantBits == 53

FracBits == MantBits + 5

SetMin(S) == CHOOSE x \in S : \A y \in S : x <= y

SetMax(S) == CHOOSE x \in S : \A y \in S : x >= y

Bit(ones, i) == IF i \in ones THEN 1 ELSE 0

BitLen(n) == IF n = 0 THEN 0 ELSE CHOOSE k \in 1..20 : 2^(k-1) <= n /\ n < 2^k

\* The exact non-negative value ip + 0.b1 b2 ..., where ones is the set of
\* positions i with bi = 1 (+ something below the last position when sticky),
\* rounded to MantBits significant bits, ties to even.
RoundFloat(ip, ones, sticky) ==
    IF ip = 0 /\ ones = {} THEN [neg |-> FALSE, ip |-> 0, frac |-> {}]
    ELSE
    LET keep  == IF ip > 0 THEN MantBits - BitLen(ip)
                 ELSE SetMin(ones) - 1 + MantBits
        rnd   == (keep + 1) \in ones
        rest  == sticky \/ \E i \in ones : i > keep + 1
        lsb   == IF keep = 0 THEN ip % 2 = 1 ELSE keep \in ones
        up    == rnd /\ (rest \/ lsb)
        kept  == {i \in ones : i <= keep}
        zeros == (1..keep) \ kept
    IN  IF ~up
        THEN [neg |-> FALSE, ip |-> ip, frac |-> kept]
        ELSE IF zeros = {}
        THEN [neg |-> FALSE, ip |-> ip + 1, frac |-> {}]
        ELSE LET j == SetMax(zeros)
             IN  [neg |-> FALSE, ip |-> ip, frac |-> {i \in kept : i < j} \cup {j}]

\* float(n) for an int n
IntToFloat(n) == [neg |-> n < 0, ip |-> IF n < 0 THEN 0 - n ELSE n, frac |-> {}]

\* m / n for ints m >= 0, n > 0: Python's true division, correctly rounded
FloatTrueDiv(m, n) ==
    LET L == FracBits + 2
        rem[i \in 0..L] == IF i = 0 THEN m % n ELSE (2 * rem[i - 1]) % n
    IN  RoundFloat(m \div n, {i \in 1..L : 2 * rem[i - 1] >= n}, rem[L] # 0)

\* a + b for floats a, b >= 0
FloatAdd(a, b) ==
    LET sum(i) == Bit(a.frac, i) + Bit(b.frac, i)
        carry[i \in 1..(FracBits + 1)] ==
            IF i = FracBits + 1 THEN 0 ELSE (sum(i) + carry[i + 1]) \div 2
    IN  RoundFloat(a.ip + b.ip + carry[1],
                   {i \in 1..FracBits : (sum(i) + carry[i + 1]) % 2 = 1}, FALSE)

\* a - b for floats a >= b >= 0
FloatSub(a, b) ==
    LET diff(i) == Bit(a.frac, i) - Bit(b.frac, i)
        borrow[i \in 1..(FracBits + 1)] ==
            IF i = FracBits + 1 THEN 0
            ELSE IF diff(i) - borrow[i + 1] < 0 THEN 1 ELSE 0
    IN  RoundFloat(a.ip - b.ip - borrow[1],
                   {i \in 1..FracBits : (diff(i) - borrow[i + 1] + 2) % 2 = 1}, FALSE)

\* a * n for a float a >= 0 and an int n >= 0
FloatMulInt(a, n) ==
    LET carry[i \in 1..(FracBits + 1)] ==
            IF i = FracBits + 1 THEN 0
            ELSE (n * Bit(a.frac, i) + carry[i + 1]) \div 2
    IN  RoundFloat(n * a.ip + carry[1],
                   {i \in 1..FracBits : (n * Bit(a.frac, i) + carry[i + 1]) % 2 = 1},
                   FALSE)

\* int(a): truncation toward zero
FloatToInt(a) == IF a.neg THEN 0 - a.ip ELSE a.ip

\* 0.f < 0.g: the first position where they differ is a one of g
FracLess(f, g) ==
    LET differ == (f \ g) \cup (g \ f)
    IN  differ # {} /\ SetMin(differ) \in g

MagLess(a, b) == a.ip < b.ip \/ (a.ip = b.ip /\ FracLess(a.frac, b.frac))

IsZero(a) == a.ip = 0 /\ a.frac = {}

\* a < b
FloatLess(a, b) ==
    IF IsZero(a) /\ IsZero(b) THEN FALSE
    ELSE IF a.neg /\ ~b.neg THEN TRUE
    ELSE IF ~a.neg /\ b.neg THEN FALSE
    ELSE IF a.neg THEN MagLess(b, a)
    ELSE MagLess(a, b)

\* a <= b
FloatLeq(a, b) == ~FloatLess(b, a)

\* a >= b
FloatGeq(a, b) == ~FloatLess(a, b)

-----------------------------------------------------------------------------
(* Text: sequences of code points *)

DAYS == <<"Mon", "Tue", "Wed", "Thu", "Fri", "Sat", "Sun">>

DaysIndex(day) == CHOOSE i \in 1..Len(DAYS) : DAYS[i] = day

Colon == 58

Newline == 10

AsciiDigits == 48..57

\* further decimal digits of Unicode category Nd (here: Arabic-Indic), which
\* \d of a str pattern and int() accept as well
ArabicDigits == 1632..1641

IsDigit(c) == c \in AsciiDigits \/ c \in ArabicDigits

DigitVal(c) == IF c \in AsciiDigits THEN c - 48 ELSE c - 1632

\* str.isspace() code points up to U+00A0
IsSpace(c) == c \in {9, 10, 11, 12, 13, 28, 29, 30, 31, 32, 133, 160}

RECURSIVE LStrip(_)
LStrip(s) == IF s = <<>> \/ ~IsSpace(s[1]) THEN s ELSE LStrip(Tail(s))

RECURSIVE RStrip(_)
RStrip(s) ==
    IF s = <<>> \/ ~IsSpace(s[Len(s)]) THEN s ELSE RStrip(SubSeq(s, 1, Len(s) - 1))

\* str.strip()
Strip(s) == RStrip(LStrip(s))

\* int(text) for a text of decimal digits
RECURSIVE IntOf(_)
IntOf(digits) ==
    IF digits = <<>> THEN 0
    ELSE 10 * IntOf(SubSeq(digits, 1, Len(digits) - 1)) + DigitVal(digits[Len(digits)])

\* f"{n:02d}" for n >= 0
RECURSIVE Decimal(_)
Decimal(n) == IF n < 10 THEN <<48 + n>> ELSE Decimal(n \div 10) \o <<48 + (n % 10)>>

Format02d(n) == IF n < 10 THEN <<48, 48 + n>> ELSE Decimal(n)

-----------------------------------------------------------------------------
(* parse_time *)

\* ([01]?\d|2[0-3])
HourGroup(g) ==
    \/ Len(g) = 1 /\ IsDigit(g[1])
    \/ Len(g) = 2 /\ g[1] \in {48, 49} /\ IsDigit(g[2])
    \/ Len(g) = 2 /\ g[1] = 50 /\ g[2] \in 48..51

\* ([0-5]\d)
MinuteGroup(g) == Len(g) = 2 /\ g[1] \in 48..53 /\ IsDigit(g[2])

\* where $ can match: at the end of the text, and just before a newline that
\* ends the text
DollarEnds(s) ==
    {Len(s)} \cup (IF Len(s) > 0 /\ s[Len(s)] = Newline THEN {Len(s) - 1} ELSE {})

\* re.match(r'^([01]?\d|2[0-3]):([0-5]\d)$', s): the set of (group 1, group 2)
\* pairs of a match, empty when there is none
ReMatch(s) ==
    {<<SubSeq(s, 1, k), SubSeq(s, k + 2, k + 3)>> :
        k \in {k \in 1..2 : /\ (k + 3) \in DollarEnds(s)
                            /\ HourGroup(SubSeq(s, 1, k))
                            /\ s[k + 1] = Colon
                            /\ MinuteGroup(SubSeq(s, k + 2, k + 3))}}

FormatErrorText == "Time must be in HH:MM 24-hour format"

parse_time(s) ==
    LET match == ReMatch(s)
    IN  IF match = {}
        THEN [ok |-> FALSE, err |-> FormatErrorText]
        ELSE LET m      == CHOOSE m \in match : TRUE
                 hour   == IntOf(m[1])
                 minute == IntOf(m[2])
             IN  [ok |-> TRUE,
                  val |-> FloatAdd(IntToFloat(hour), FloatTrueDiv(minute, 60))]

\* the display form of a stored time (update_class_list, select_classes)
FormatTime(v) ==
    LET hr == FloatToInt(v)
        mn == FloatToInt(FloatMulInt(FloatSub(v, IntToFloat(hr)), 60))
    IN  Format02d(hr) \o <<Colon>> \o Format02d(mn)

-----------------------------------------------------------------------------
(* times_overlap *)

\* mutant: closed intervals, touching end points count as an overlap
times_overlap_closed(start1, end1, start2, end2) ==
    ~(FloatLess(end1, start2) \/ FloatLess(end2, start1))

\* mutant: end1 written for start1 in the second comparison
times_overlap_typo(start1, end1, start2, end2) ==
    ~(FloatLeq(end1, start2) \/ FloatLeq(end2, end1))

times_overlap(start1, end1, start2, end2) ==
    ~(FloatLeq(end1, start2) \/ FloatLeq(end2, start1))

-----------------------------------------------------------------------------
(* Bounds and the inputs the handlers are driven with *)

MaxClasses == 2     \* add_class calls are cut off at this many stored classes

MaxSel == 3         \* longest class list select_classes is applied to directly

MaxLen == 5         \* longest text parse_time is applied to directly

T0900 == <<48, 57, 58, 48, 48>>         \* "09:00"

T0915 == <<48, 57, 58, 49, 53>>         \* "09:15"

T0930nl == <<48, 57, 58, 51, 48, 10>>   \* "09:30\n"

T1000 == <<49, 48, 58, 48, 48>>         \* "10:00"

T1030 == <<49, 48, 58, 51, 48>>         \* "10:30"

T1100 == <<49, 49, 58, 48, 48>>         \* "11:00"

T2400 == <<50, 52, 58, 48, 48>>         \* "24:00"

DayVars(picked) == [i \in 1..Len(DAYS) |-> IF DAYS[i] \in picked THEN 1 ELSE 0]

TimeInputs == {T0900, T0930nl, T1000, T2400}

\* the (name, start, end, day checkboxes) fillings of the form the Add Class
\* button is pressed with: every well-formed one over two names, three
\* intervals and two days, and fillings that fail each validation
WellFormedInputs ==
    {<<n, iv[1], iv[2], DayVars(picked)>> :
        n \in {<<65>>, <<66, 32>>},                                 \* "A", "B "
        iv \in {<<T0900, T0930nl>>, <<T0930nl, T1000>>, <<T0900, T1000>>},
        picked \in {{"Mon"}, {"Wed"}, {"Mon", "Wed"}}}

InvalidInputs ==
    {<<(<<32>>), T0900, T1000, DayVars({"Mon"})>>,                  \* name " "
     <<(<<65>>), T2400, T1000, DayVars({"Mon"})>>,                  \* bad start
     <<(<<65>>), T0900, T2400, DayVars({"Mon"})>>,                  \* bad end
     <<(<<65>>), T1000, T0900, DayVars({"Mon"})>>,                  \* start > end
     <<(<<65>>), T0900, T0900, DayVars({"Mon"})>>,                  \* start = end
     <<(<<65>>), T0900, T1000, DayVars({})>>}                       \* no day

AddInputs == WellFormedInputs \cup InvalidInputs

\* parse_time and FormatTime are pure; their values on the input texts above
\* are computed once
MemoTexts == {Strip(t) : t \in TimeInputs} \cup {T0915, T1030, T1100}

ParseMemo == [t \in MemoTexts |-> parse_time(t)]

ParseTimeOf(t) == IF t \in MemoTexts THEN ParseMemo[t] ELSE parse_time(t)

MemoTimes == {ParseMemo[t].val : t \in {u \in MemoTexts : ParseMemo[u].ok}}

FormatMemo == [v \in MemoTimes |-> FormatTime(v)]

FormatTimeOf(v) == IF v \in MemoTimes THEN FormatMemo[v] ELSE FormatTime(v)

-----------------------------------------------------------------------------
(* ClassSchedulerApp *)

NoMsg == [kind |-> "none"]

ShowError(text) == [kind |-> "showerror", title |-> "Invalid Input", text |-> text]

ShowWarning(name, days) ==
    [kind |-> "showwarning", title |-> "Time Conflict", name |-> name, days |-> days]

Range(f) == {f[i] : i \in DOMAIN f}

NoDays == [i \in 1..Len(DAYS) |-> 0]

\* list.sort(key=...): the stable sort of seq, where less[i][j] says that the
\* key of seq[i] is below the key of seq[j]
StableSort(seq, less) ==
    LET n == Len(seq)
        rank(i) == 1 + Cardinality({j \in 1..n :
                        less[j][i] \/ (~less[i][j] /\ j < i)})
    IN  [p \in 1..n |-> seq[CHOOSE i \in 1..n : rank(i) = p]]

\* one line of the class list
ListLine(c) ==
    [name |-> c.name, start_str |-> FormatTimeOf(c.start),
     end_str |-> FormatTimeOf(c.end), days |-> c.days]

update_class_list(cls) == [i \in 1..Len(cls) |-> ListLine(cls[i])]

\* mutant: insert(0, entry) for append(entry)
AppendClass_front(cls, entry) == <<entry>> \o cls

\* self.classes.append(entry)
AppendClass(cls, entry) == Append(cls, entry)

\* mutant: the entry was stored before the checks, and a failing check returns
\* without taking it out again
Reject_stored(m, name_text, start_text, end_text, dv) ==
    /\ msg' = m
    /\ name_entry' = name_text
    /\ start_entry' = start_text
    /\ end_entry' = end_text
    /\ day_vars' = dv
    /\ classes' = Append(classes, [name |-> Strip(name_text), start |-> IntToFloat(0),
                                   end |-> IntToFloat(0), days |-> <<>>])
    /\ class_listbox' = class_listbox

\* a message box and return: nothing stored changes, the inputs stay as typed
Reject(m, name_text, start_text, end_text, dv) ==
    /\ msg' = m
    /\ name_entry' = name_text
    /\ start_entry' = start_text
    /\ end_entry' = end_text
    /\ day_vars' = dv
    /\ UNCHANGED <<classes, class_listbox>>

\* the Add Class button, pressed with the four inputs filled in as given
add_class(name_text, start_text, end_text, dv) ==
    LET name == Strip(name_text)
        ps   == ParseTimeOf(Strip(start_text))
        pe   == ParseTimeOf(Strip(end_text))
        on   == SelectSeq([i \in 1..Len(DAYS) |-> i], LAMBDA i : dv[i] = 1)
        days == [k \in 1..Len(on) |-> DAYS[on[k]]]
        shared(i) == Range(days) \cap Range(classes[i].days)
        hits == {i \in 1..Len(classes) :
                    /\ shared(i) # {}
                    /\ times_overlap(ps.val, pe.val, classes[i].start, classes[i].end)}
    IN  /\ op' = "add_class"
        /\ UNCHANGED <<result_text, tstr, parsed, shown>>
        /\ selected' = <<>>
        /\ IF name = <<>>
           THEN Reject(ShowError("Class name cannot be empty."),
                       name_text, start_text, end_text, dv)
           ELSE IF ~ps.ok
           THEN Reject(ShowError(ps.err), name_text, start_text, end_text, dv)
           ELSE IF ~pe.ok
           THEN Reject(ShowError(pe.err), name_text, start_text, end_text, dv)
           ELSE IF FloatGeq(ps.val, pe.val)
           THEN Reject(ShowError("Start time must be before end time."),
                       name_text, start_text, end_text, dv)
           ELSE IF days = <<>>
           THEN Reject(ShowError("Select at least one day."),
                       name_text, start_text, end_text, dv)
           ELSE IF hits # {}
           THEN LET i == SetMin(hits)
                IN  Reject(ShowWarning(classes[i].name, shared(i)),
                           name_text, start_text, end_text, dv)
           ELSE /\ Len(classes) < MaxClasses
                /\ classes' = AppendClass(classes,
                        [name |-> name, start |-> ps.val, end |-> pe.val, days |-> days])
                /\ class_listbox' = update_class_list(classes')
                /\ msg' = NoMsg
                /\ name_entry' = <<>>
                /\ start_entry' = <<>>
                /\ end_entry' = <<>>
                /\ day_vars' = NoDays

\* mutant: > for >=
Accepts_strict(c, last_end) == FloatLess(last_end, c.start)

\* c['start'] >= last_end
Accepts(c, last_end) == FloatGeq(c.start, last_end)

\* the scan of one day's sorted classes
RECURSIVE GreedyScan(_, _, _, _)
GreedyScan(day, day_classes, i, last_end) ==
    IF i > Len(day_classes) THEN <<>>
    ELSE IF Accepts(day_classes[i], last_end)
    THEN <<(<<day, day_classes[i]>>)>>
            \o GreedyScan(day, day_classes, i + 1, day_classes[i].end)
    ELSE GreedyScan(day, day_classes, i + 1, last_end)

\* mutant: sorted by start
SortDayClasses_byStart(day_classes) ==
    StableSort(day_classes,
        [i \in 1..Len(day_classes) |-> [j \in 1..Len(day_classes) |->
            FloatLess(day_classes[i].start, day_classes[j].start)]])

\* day_classes.sort(key=lambda x: x['end'])
SortDayClasses(day_classes) ==
    StableSort(day_classes,
        [i \in 1..Len(day_classes) |-> [j \in 1..Len(day_classes) |->
            FloatLess(day_classes[i].end, day_classes[j].end)]])

SelectDay(cls, day) ==
    LET day_classes == SelectSeq(cls, LAMBDA c : day \in Range(c.days))
    IN  GreedyScan(day, SortDayClasses(day_classes), 1, IntToFloat(-1))

RECURSIVE SelectDays(_, _)
SelectDays(cls, d) ==
    IF d > Len(DAYS) THEN <<>> ELSE SelectDay(cls, DAYS[d]) \o SelectDays(cls, d + 1)

\* mutant: the key's two parts swapped
SortSelected_startFirst(sel) ==
    StableSort(sel,
        [i \in 1..Len(sel) |-> [j \in 1..Len(sel) |->
            \/ FloatLess(sel[i][2].start, sel[j][2].start)
            \/ /\ sel[i][2].start = sel[j][2].start
               /\ DaysIndex(sel[i][1]) < DaysIndex(sel[j][1])]])

\* selected.sort(key=lambda x: (DAYS.index(x[0]), x[1]['start']))
SortSelected(sel) ==
    StableSort(sel,
        [i \in 1..Len(sel) |-> [j \in 1..Len(sel) |->
            \/ DaysIndex(sel[i][1]) < DaysIndex(sel[j][1])
            \/ /\ DaysIndex(sel[i][1]) = DaysIndex(sel[j][1])
               /\ FloatLess(sel[i][2].start, sel[j][2].start)]])

SelectNonOverlapping(cls) == SortSelected(SelectDays(cls, 1))

\* the lines written to the result text: a heading for each new day, then the
\* class
RECURSIVE RenderSelected(_, _, _)
RenderSelected(sel, i, current_day) ==
    IF i > Len(sel) THEN <<>>
    ELSE LET day  == sel[i][1]
             c    == sel[i][2]
             head == IF day # current_day THEN <<[heading |-> day]>> ELSE <<>>
             line == [name |-> c.name, start_str |-> FormatTimeOf(c.start),
                      end_str |-> FormatTimeOf(c.end)]
         IN  head \o <<line>> \o RenderSelected(sel, i + 1, day)

\* the Select Non-Overlapping Classes button
select_classes ==
    /\ op' = "select_classes"
    /\ selected' = SelectNonOverlapping(classes)
    /\ result_text' = IF selected' = <<>> THEN <<"No classes selected.">>
                      ELSE RenderSelected(selected', 1, "None")
    /\ msg' = NoMsg
    /\ UNCHANGED <<classes, class_listbox, name_entry, start_entry, end_entry,
                   day_vars, tstr, parsed, shown>>

-----------------------------------------------------------------------------
(* The application: any sequence of button presses *)

Pending == [ok |-> FALSE, err |-> "pending"]

Init ==
    /\ classes = <<>>
    /\ class_listbox = <<>>
    /\ result_text = <<>>
    /\ selected = <<>>
    /\ msg = NoMsg
    /\ op = "init"
    /\ name_entry = <<>>
    /\ start_entry = <<>>
    /\ end_entry = <<>>
    /\ day_vars = NoDays
    /\ tstr = <<>>
    /\ parsed = Pending
    /\ shown = <<>>

AddClass == \E in \in AddInputs : add_class(in[1], in[2], in[3], in[4])

SelectClasses == select_classes

Next == AddClass \/ SelectClasses

Spec == Init /\ [][Next]_vars

-----------------------------------------------------------------------------
(* select_classes applied to an arbitrary class list *)

ClassName(i) == <<99, 48 + i>>          \* "c1", "c2", ...

SelIntervals ==
    {<<T0900, T1000>>, <<T0915, T1030>>, <<T1000, T1100>>,
     <<T0900, T1100>>, <<T0915, T1000>>, <<T1030, T1100>>}

SelDays == {<<"Mon">>, <<"Wed">>, <<"Mon", "Wed">>}

SelEntry(i, iv, days) ==
    [name |-> ClassName(i), start |-> ParseTimeOf(iv[1]).val,
     end |-> ParseTimeOf(iv[2]).val, days |-> days]

InitSel ==
    /\ \E n \in 0..MaxSel :
        \E ivs \in [1..n -> SelIntervals], ds \in [1..n -> SelDays] :
            classes = [i \in 1..n |-> SelEntry(i, ivs[i], ds[i])]
    /\ class_listbox = update_class_list(classes)
    /\ result_text = <<>>
    /\ selected = <<>>
    /\ msg = NoMsg
    /\ op = "init"
    /\ name_entry = <<>>
    /\ start_entry = <<>>
    /\ end_entry = <<>>
    /\ day_vars = NoDays
    /\ tstr = <<>>
    /\ parsed = Pending
    /\ shown = <<>>

SpecSel == InitSel /\ [][SelectClasses]_vars

-----------------------------------------------------------------------------
(* parse_time applied to an arbitrary text, and the text displayed for the  *)
(* time it returns                                                          *)

\* '0' '2' '4' '6' ':' newline 'a' and ARABIC-INDIC DIGIT THREE
Alphabet == {48, 50, 52, 54, Colon, Newline, 97, 1635}

ClockText(h, m) == <<48 + (h \div 10), 48 + (h % 10), Colon, 48 + (m \div 10), 48 + (m % 10)>>

ClockTexts == {ClockText(h, m) : h \in 0..23, m \in 0..59}

InitParse ==
    /\ \/ \E n \in 0..MaxLen : tstr \in [1..n -> Alphabet]
       \/ tstr \in ClockTexts
    /\ parsed = Pending
    /\ shown = <<>>
    /\ classes = <<>>
    /\ class_listbox = <<>>
    /\ result_text = <<>>
    /\ selected = <<>>
    /\ msg = NoMsg
    /\ op = "init"
    /\ name_entry = <<>>
    /\ start_entry = <<>>
    /\ end_entry = <<>>
    /\ day_vars = NoDays

ParseCall ==
    /\ op = "init"
    /\ op' = "parse_time"
    /\ parsed' = parse_time(tstr)
    /\ shown' = IF parsed'.ok THEN FormatTime(parsed'.val) ELSE <<>>
    /\ UNCHANGED <<classes, class_listbox, result_text, selected, msg,
                   name_entry, start_entry, end_entry, day_vars, tstr>>

SpecParse == InitParse /\ [][ParseCall]_vars

-----------------------------------------------------------------------------
(* Properties *)

\* half-open overlap of [s1, e1) and [s2, e2)
HalfOpenOverlap(s1, e1, s2, e2) == FloatLess(s1, e2) /\ FloatLess(s2, e1)

Conflicting(c, e) ==
    /\ Range(c.days) \cap Range(e.days) # {}
    /\ HalfOpenOverlap(c.start, c.end, e.start, e.end)

IsPrefix(s, t) == Len(s) <= Len(t) /\ SubSeq(t, 1, Len(s)) = s

\* the inputs of the call that has just failed, as they stand in the form
TypedStart == ParseTimeOf(Strip(start_entry))

TypedEnd == ParseTimeOf(Strip(end_entry))

TypedDays == {DAYS[i] : i \in {j \in 1..Len(DAYS) : day_vars[j] = 1}}

TypedValid ==
    /\ Strip(name_entry) # <<>>
    /\ TypedStart.ok
    /\ TypedEnd.ok
    /\ FloatLess(TypedStart.val, TypedEnd.val)
    /\ TypedDays # {}

TypedConflicts ==
    {i \in 1..Len(classes) :
        /\ TypedDays \cap Range(classes[i].days) # {}
        /\ HalfOpenOverlap(TypedStart.val, TypedEnd.val,
                           classes[i].start, classes[i].end)}

FailedAdd == op = "add_class" /\ msg # NoMsg

\* C1: a call of add_class that ends in a message box (empty name, malformed
\* time, start >= end, no day, conflict) leaves the stored list, and the list
\* shown, exactly as they were.
C1_FailedAddChangesNothing ==
    [][(op' = "add_class" /\ msg' # NoMsg)
            => (classes' = classes /\ class_listbox' = class_listbox)]_vars

C1_Witness ==
    /\ FailedAdd
    /\ msg.kind = "showwarning"
    /\ Len(classes) = 2

\* C2: a call with valid name, times and days fails exactly when a stored
\* entry shares a day with it and overlaps it half-open; the warning then
\* names the first such entry in insertion order and exactly the shared days;
\* a call that succeeds has appended an entry that conflicts with none before.
C2_ConflictExactlyOnOverlap ==
    /\ (FailedAdd /\ TypedValid) =>
            /\ msg.kind = "showwarning"
            /\ TypedConflicts # {}
            /\ LET e == classes[SetMin(TypedConflicts)]
               IN  /\ msg.name = e.name
                   /\ msg.days = TypedDays \cap Range(e.days)
    /\ (FailedAdd /\ msg.kind = "showwarning") => TypedValid
    /\ (op = "add_class" /\ msg = NoMsg) =>
            /\ Len(classes) >= 1
            /\ \A i \in 1..(Len(classes) - 1) :
                    ~Conflicting(classes[Len(classes)], classes[i])

\* a warning that names the second stored entry although the first one shares
\* a day with the rejected call (and does not overlap it)
C2_Witness ==
    /\ FailedAdd
    /\ msg.kind = "showwarning"
    /\ Len(classes) = 2
    /\ SetMin(TypedConflicts) = 2
    /\ TypedDays \cap Range(classes[1].days) # {}
    /\ classes[1].name # classes[2].name

\* the result of select_classes for one day, as the indices of the stored
\* entries in result order
ChosenOn(d) ==
    LET ks == SelectSeq([k \in 1..Len(selected) |-> k], LAMBDA k : selected[k][1] = d)
    IN  [p \in 1..Len(ks) |-> CHOOSE i \in 1..Len(classes) : classes[i] = selected[ks[p]][2]]

OnDay(d) == {i \in 1..Len(classes) : d \in Range(classes[i].days)}

PairwiseDisjoint(S) ==
    \A i \in S, j \in S :
        i # j => ~HalfOpenOverlap(classes[i].start, classes[i].end,
                                  classes[j].start, classes[j].end)

AfterSelect == op = "select_classes"

\* C3: for every weekday the entries select_classes returns for it are entries
\* of that day, pairwise non-overlapping (half-open), and no pairwise
\* non-overlapping set of that day's entries is larger.
C3_SelectionIsMaximum ==
    AfterSelect =>
        \A d \in Range(DAYS) :
            LET chosen == Range(ChosenOn(d))
            IN  /\ \A k \in 1..Len(selected) : selected[k][2] \in Range(classes)
                /\ chosen \subseteq OnDay(d)
                /\ Cardinality(chosen) = Len(ChosenOn(d))
                /\ PairwiseDisjoint(chosen)
                /\ \A S \in SUBSET OnDay(d) :
                        PairwiseDisjoint(S) => Cardinality(S) <= Cardinality(chosen)

\* a day with three entries of which an overlapping one is left out
C3_Witness ==
    /\ AfterSelect
    /\ Cardinality(OnDay("Mon")) = 3
    /\ Len(ChosenOn("Mon")) = 2
    /\ ~PairwiseDisjoint(OnDay("Mon"))

\* the conforming texts: H:MM or HH:MM in ASCII digits, hour 0..23, minute
\* 00..59
ConformingTexts ==
    {Decimal(h) \o <<Colon>> \o Format02d(m) : h \in 0..23, m \in 0..59}
        \cup ClockTexts

ClockHour(s) == IntOf(SubSeq(s, 1, Len(s) - 3))

ClockMinute(s) == IntOf(SubSeq(s, Len(s) - 1, Len(s)))

\* C4: parse_time succeeds exactly on the conforming texts, returning
\* hour + minute/60, and fails with the format error on every other text.
C4_ParseExactlyConforming ==
    op = "parse_time" =>
        IF tstr \in ConformingTexts
        THEN parsed = [ok |-> TRUE,
                       val |-> FloatAdd(IntToFloat(ClockHour(tstr)),
                                        FloatTrueDiv(ClockMinute(tstr), 60))]
        ELSE parsed = [ok |-> FALSE, err |-> FormatErrorText]

\* C5: the text displayed for the time parsed from a zero-padded HH:MM text is
\* that text.
C5_DisplayRoundTrip ==
    (op = "parse_time" /\ tstr \in ClockTexts) => shown = tstr

\* C6: the result of select_classes is ordered by weekday (Mon..Sun) and within
\* a weekday by ascending start; with nothing stored it is empty.
C6_ResultOrdered ==
    AfterSelect =>
        /\ \A k \in 1..(Len(selected) - 1) :
                \/ DaysIndex(selected[k][1]) < DaysIndex(selected[k + 1][1])
                \/ /\ selected[k][1] = selected[k + 1][1]
                   /\ FloatLeq(selected[k][2].start, selected[k + 1][2].start)
        /\ (classes = <<>> => selected = <<>>)

\* two entries of one day followed by an entry of a later day
C6_Witness ==
    /\ AfterSelect
    /\ Len(selected) >= 3
    /\ \E k \in 1..(Len(selected) - 2) :
            /\ selected[k][1] = selected[k + 1][1]
            /\ FloatLess(selected[k][2].start, selected[k + 1][2].start)
            /\ selected[k + 2][1] # selected[k][1]

\* C7: the stored list only grows at its end: every step leaves the old list
\* a prefix of the new one, a successful add_class appends exactly one entry,
\* and select_classes leaves the list as it is.
C7_AppendOnly ==
    [][/\ IsPrefix(classes, classes')
       /\ (op' = "add_class" /\ msg' = NoMsg) => Len(classes') = Len(classes) + 1
       /\ (op' = "select_classes") => classes' = classes]_vars

C7_Witness ==
    /\ AfterSelect
    /\ Len(classes) = 2
    /\ Len(selected) >= 2

\* i comes before j in ascending end order, ties in insertion order
ScanBefore(i, j) ==
    \/ FloatLess(classes[i].end, classes[j].end)
    \/ (classes[i].end = classes[j].end /\ i < j)

\* the most recently accepted entry of day d before i in scan order, as a set
\* (empty when none was accepted before i)
LastAcceptedBefore(d, i) ==
    LET prior == {j \in Range(ChosenOn(d)) : ScanBefore(j, i)}
    IN  {j \in prior : \A k \in prior : k = j \/ ScanBefore(k, j)}

GreedyExample ==
    <<SelEntry(1, <<T0900, T1000>>, <<"Mon">>),
      SelEntry(2, <<T0915, T1030>>, <<"Mon">>),
      SelEntry(3, <<T1000, T1100>>, <<"Mon">>)>>

\* C8: on each weekday an entry is accepted iff its start >= the end of the
\* entry accepted most recently before it in ascending end order (ties in
\* insertion order), the first one always; classes 09:00-10:00, 09:15-10:30,
\* 10:00-11:00 on Mon give [class-1, class-3] for Mon.
C8_GreedyStepRule ==
    AfterSelect =>
        /\ \A d \in Range(DAYS) : \A i \in OnDay(d) :
                i \in Range(ChosenOn(d)) <=>
                    \A j \in LastAcceptedBefore(d, i) :
                        FloatGeq(classes[i].start, classes[j].end)
        /\ classes = GreedyExample => ChosenOn("Mon") = <<1, 3>>

C8_Witness == AfterSelect /\ classes = GreedyExample

\* C9: every stored entry has start < end and a non-empty list of weekdays,
\* and no two stored entries share a weekday and overlap.
C9_StoredEntriesValid ==
    /\ \A i \in 1..Len(classes) :
            /\ FloatLess(classes[i].start, classes[i].end)
            /\ classes[i].days # <<>>
            /\ Range(classes[i].days) \subseteq Range(DAYS)
    /\ \A i \in 1..Len(classes), j \in 1..Len(classes) :
            i # j => ~Conflicting(classes[i], classes[j])

\* two stored entries that share a day
C9_Witness ==
    /\ Len(classes) = 2
    /\ Range(classes[1].days) \cap Range(classes[2].days) # {}

\* C10: after add_class calls only, select_classes returns exactly one pair
\* (d, E) for every stored entry E and every weekday d of E, and nothing else.
C10_NothingSkipped ==
    AfterSelect =>
        /\ \A i \in 1..Len(classes) : \A d \in Range(classes[i].days) :
                Cardinality({k \in 1..Len(selected) :
                                selected[k] = <<d, classes[i]>>}) = 1
        /\ \A k \in 1..Len(selected) :
                \E i \in 1..Len(classes) :
                    /\ selected[k][2] = classes[i]
                    /\ selected[k][1] \in Range(classes[i].days)

\* an entry on Mon and Wed, found under both, next to a second entry
C10_Witness ==
    /\ AfterSelect
    /\ Len(classes) = 2
    /\ classes[1].days = <<"Mon", "Wed">>
    /\ Len(selected) >= 3

====
